---------------------------- MODULE Spec2Model ----------------------------
(***************************************************************************)
(* State-machine model of src/App.tsx: the mock-interview session screen   *)
(* (MockInterviewSessionScreen), SettingsProvider (translate and its       *)
(* cache, the voice registry, speakText), the T component and the          *)
(* handleSend of GuideScreen.                                              *)
(*                                                                         *)
(* Specifications: Spec and FairSpec (one mount of the session screen),    *)
(* EndSpec (the same with handleEndInterview called as an operation),      *)
(* TranslateSpec (translate), VoiceSpec (voice registry and speakText),    *)
(* TSpec (one T and its translate calls), GuideSpec and FairGuideSpec (one *)
(* mount of GuideScreen).                                                  *)
(*                                                                         *)
(* React semantics used throughout:                                        *)
(*  - every event handler and every continuation of an async function      *)
(*    after an await is one atomic step; the setState calls it makes are   *)
(*    batched into one commit (React 18 automatic batching; the explicit   *)
(*    children props of lines 31 and 50 are those of the React 18 typings),*)
(*    and the effects whose dependencies changed run as part of that       *)
(*    commit;                                                              *)
(*  - a closure reads the state of the render that created it;             *)
(*  - setState on an unmounted component changes nothing, but the rest of  *)
(*    the handler (collaborator calls) still runs.                         *)
(*                                                                         *)
(* Text is a sequence of one-character strings, so that replace(/\*/g,'')  *)
(* and trim() are computed and not assumed.                                *)
(***************************************************************************)
EXTENDS Naturals, Sequences, FiniteSets

VARIABLES
    mounted,             \* MockInterviewSessionScreen is mounted
    started,             \* the mount effect (line 712) has run
    interviewState,      \* line 694
    currentQuestion,     \* line 696
    stagedNextQuestion,  \* line 697
    userTranscript,      \* line 698
    feedback,            \* line 699
    interviewHistory,    \* line 700
    summary,             \* line 701
    recognitionRef,      \* line 703: "null" or "recognition"
    onresultQuestion,    \* currentQuestion read by the onresult closure (782-786)
    recognition,         \* platform capture session: inactive/active/stopping/errored
    recResulted,         \* the running capture session has delivered its result
    hasSpeechRecognition,\* window.SpeechRecognition || webkitSpeechRecognition (766)
    openingCall,         \* sendMessageToAI call of startInterview: none/pending/done
    feedbackCalls,       \* getInterviewFeedbackAndNextQuestion calls in flight
    summaryCalls,        \* generateInterviewSummary calls in flight, each the
                         \* history it was given
    availableVoices,     \* line 70
    selectedVoiceURI,    \* line 71
    utterances,          \* speechSynthesis' queue: the utterance playing and the
                         \* ones waiting behind it
    issued,              \* history variable: number of feedback calls issued
    turnsInOrder,        \* history variable: no turn was appended while a feedback
                         \* call issued earlier than its own was still in flight
    spoken,              \* history variable: speakText calls for the question on
                         \* screen: "never", "once" or "repeatedly"
    lateResponse,        \* history variable: a collaborator response has arrived
                         \* after the screen was unmounted
    userSelected,        \* history variable: the user has picked a voice (line 662)
    language,            \* line 51
    translationCache,    \* line 52: translationCache.current[text][language]
    translateCalls,      \* translateText calls in flight, each with the text and
                         \* the language of the translate that made it
    translateIssued,     \* history variable: translateText calls made, per text
    translateResult,     \* what the last settled translate promise resolved with
    tMounted,            \* a T component is mounted
    children,            \* T's children prop (line 31)
    translatedText,      \* T's state (line 33)
    tThens,              \* the isMounted flag (line 36) of the effect behind each
                         \* translateText call in flight, in the order of
                         \* translateCalls
    tLate,               \* history variable: a translation has arrived for an
                         \* effect of T that was already cleaned up
    guideMounted,        \* GuideScreen is mounted
    messages,            \* line 424
    input,               \* line 425
    isLoading,           \* line 426
    guideCalls,          \* collaborator calls of handleSend in flight, each the
                         \* name of the function called
    navigateTimer,       \* the timeout of line 473 is pending
    skillAnalysis,       \* UserData context: "null" or "result" (line 462)
    sendIgnored          \* history variable: why handleSend calls returned on
                         \* line 439: "blank", "loading"

sessionVars == <<mounted, started, interviewState, currentQuestion,
                 stagedNextQuestion, userTranscript, feedback, interviewHistory,
                 summary, recognitionRef, onresultQuestion>>
platformVars == <<recognition, recResulted, hasSpeechRecognition, openingCall,
                  feedbackCalls, summaryCalls, utterances>>
voiceVars == <<availableVoices, selectedVoiceURI, userSelected>>
translateVars == <<language, translationCache, translateCalls, translateIssued,
                   translateResult>>
settingsVars == <<voiceVars, translateVars>>
tVars == <<tMounted, children, translatedText, tThens, tLate>>
guideVars == <<guideMounted, messages, input, isLoading, guideCalls, navigateTimer,
               skillAnalysis, sendIgnored>>
componentVars == <<tVars, guideVars>>
outsideVars == <<settingsVars, componentVars>>
historyVars == <<issued, turnsInOrder, spoken, lateResponse>>
vars == <<sessionVars, platformVars, outsideVars, historyVars>>

---------------------------------------------------------------------------
(* Bounds of the model *)

\* feedback calls one session may issue
MaxTurns == 2

\* translateText calls that may be made for one text
MaxTranslateCalls == 2

\* summary calls in flight when handleEndInterview is called as an operation
MaxSummaryCalls == 1

\* messages the user may send on one mount of GuideScreen
MaxSends == 2

---------------------------------------------------------------------------
(* Text *)

Null == <<"null">>

\* the replace left out: the text kept as returned
KeepAsterisks(text) == text

\* text.replace(/\*/g, '')
StripAsterisks(text) == SelectSeq(text, LAMBDA c : c # "*")

IsSpace(c) == c = " "

RECURSIVE TrimStart(_)
TrimStart(text) ==
    IF text # <<>> /\ IsSpace(Head(text)) THEN TrimStart(Tail(text)) ELSE text

RECURSIVE TrimEnd(_)
TrimEnd(text) ==
    IF text # <<>> /\ IsSpace(text[Len(text)])
    THEN TrimEnd(SubSeq(text, 1, Len(text) - 1))
    ELSE text

\* Trim done wrong: the transcript tested as it is (if (!transcript))
NoTrim(text) == text

\* transcript.trim()
Trim(text) == TrimEnd(TrimStart(text))

\* JavaScript truthiness of a string | null
Truthy(text) == text # Null /\ text # <<>>

StartsWith(text, prefix) ==
    Len(text) >= Len(prefix) /\ SubSeq(text, 1, Len(prefix)) = prefix

RemoveAt(s, i) == SubSeq(s, 1, i - 1) \o SubSeq(s, i + 1, Len(s))

---------------------------------------------------------------------------
(* What the collaborators and the platform can deliver *)

\* The substitute text a failed collaborator call resolves with.
ErrorMessage == <<"e">>

\* sendMessageToAI: the opening question as returned, or the substitute text
OpeningResponses == {<<"a", "*">>, ErrorMessage}

\* getInterviewFeedbackAndNextQuestion: {feedback, nextQuestion?}
FeedbackResponses ==
    {[feedback |-> <<"f", "*">>, nextQuestion |-> q] : q \in {Null, <<"b">>, <<"*">>}}
    \cup {[feedback |-> ErrorMessage, nextQuestion |-> Null]}

\* generateInterviewSummary
SummaryResponses == {<<"s", "*">>, ErrorMessage}

\* event.results[0][0].transcript
Transcripts == {<<>>, <<" ">>, <<"x">>}

\* type Language (line 8)
Languages == {"English", "Tamil"}

\* the strings handed to translate (the children of T, line 40)
UiTexts == {<<"h">>, <<"g">>}

\* translateText: the translation as returned; it may be the empty string
TranslationResponses == {<<"t">>, <<>>}

\* the texts other screens hand to speakText (lines 464, 472, 479)
SpokenTexts == {<<>>, <<"m">>}

EnUS == <<"e", "n", "-", "U", "S">>
EnGB == <<"e", "n", "-", "G", "B">>
TaIN == <<"t", "a", "-", "I", "N">>

\* window.speechSynthesis.getVoices()
PlatformVoiceLists ==
    { <<>>,
      <<[voiceURI |-> "ta", lang |-> TaIN, default |-> TRUE],
        [voiceURI |-> "en1", lang |-> EnUS, default |-> FALSE]>>,
      <<[voiceURI |-> "en1", lang |-> EnUS, default |-> FALSE],
        [voiceURI |-> "en2", lang |-> EnGB, default |-> TRUE]>> }

---------------------------------------------------------------------------
(* SettingsProvider: speakText and the voice registry *)

\* selectedVoiceURI === null; utterance.voice left unset
NullURI == "null"

\* speechSynthesis.cancel(): the queue emptied, nothing is playing
NoUtterance == <<>>

\* undefined, the result of a find that matches nothing
NoVoice == [voiceURI |-> NullURI, lang |-> <<>>, default |-> FALSE]

\* Array.prototype.find over the elements selected by a predicate: the first
\* of them, or undefined
First(hits) == IF hits = <<>> THEN NoVoice ELSE Head(hits)

\* availableVoices.find(v => v.voiceURI === selectedVoiceURI) (line 95)
FindByURI(voices, uri) == First(SelectSeq(voices, LAMBDA v : v.voiceURI = uri))

\* voices.find(v => v.default) (line 78)
FindDefault(voices) == First(SelectSeq(voices, LAMBDA v : v.default))

\* The utterance speakText starts (lines 93-100), for the voice list and the
\* selection of the render that created this speakText.
NewUtterance(text, voices, uri) ==
    LET selectedVoice ==
            IF uri # NullURI THEN FindByURI(voices, uri) ELSE NoVoice
    IN  [text |-> text,
         voice |-> IF selectedVoice # NoVoice THEN selectedVoice.voiceURI
                                              ELSE NullURI]

\* speakText done wrong: no speechSynthesis.cancel() before speak(), so the
\* new utterance queues behind the one playing.
speakTextNoCancel(text, voices, uri) ==
    IF text # <<>>
    THEN utterances' = Append(utterances, NewUtterance(text, voices, uri))
    ELSE utterances' = utterances

\* speakText (lines 90-102): cancel() empties the queue, speak() appends the
\* new utterance to it.  'speechSynthesis' in window holds: loadVoices (line
\* 75) reads it unguarded.
speakText(text, voices, uri) ==
    IF text # <<>>
    THEN utterances' = Append(NoUtterance, NewUtterance(text, voices, uri))
    ELSE utterances' = utterances

\* The speak effect of the session screen (lines 724-728), run after a commit
\* in which one of its dependencies [currentQuestion, interviewState,
\* speakText] changed; it calls the speakText of the committed render.  posed
\* tells how often speakText was called so far for the question on screen.
SpeakEffect(depsChanged, question, state, posed) ==
    IF depsChanged /\ question # <<>> /\ state = "AWAITING_ANSWER"
    THEN /\ speakText(question, availableVoices', selectedVoiceURI')
         /\ spoken' = IF posed = "never" THEN "once" ELSE "repeatedly"
    ELSE /\ utterances' = utterances
         /\ spoken' = posed

\* The platform finishes the utterance it is playing (the head of the queue).
utteranceEnd ==
    /\ utterances # NoUtterance
    /\ utterances' = Tail(utterances)
    /\ UNCHANGED <<sessionVars, outsideVars, historyVars, recognition, recResulted,
                   hasSpeechRecognition, openingCall, feedbackCalls, summaryCalls>>

\* loadVoices (lines 74-81), the voiceschanged handler.  It was created by an
\* effect with no dependencies (line 88), so the selectedVoiceURI it reads on
\* line 77 is the one of the provider's first render: null.  setAvailableVoices
\* receives a new array each time, so speakText (deps on line 102) is a new
\* function after every call and the session's speak effect runs again.
loadVoices(platformVoices) ==
    LET voices == SelectSeq(platformVoices, LAMBDA v : StartsWith(v.lang, <<"e", "n">>))
        closureSelectedVoiceURI == NullURI
        defaultVoice == FindDefault(voices)
    IN  /\ availableVoices' = voices
        /\ selectedVoiceURI' =
              IF closureSelectedVoiceURI = NullURI /\ Len(voices) > 0
              THEN (IF defaultVoice # NoVoice THEN defaultVoice.voiceURI
                                           ELSE voices[1].voiceURI)
              ELSE selectedVoiceURI
        /\ SpeakEffect(mounted, currentQuestion, interviewState, spoken)
        /\ UNCHANGED <<sessionVars, translateVars, componentVars, userSelected, issued,
                       turnsInOrder, lateResponse, recognition, recResulted,
                       hasSpeechRecognition, openingCall, feedbackCalls,
                       summaryCalls>>

\* speakText called by another consumer of the context (GuideScreen, lines
\* 464-479); the continuation that calls it may run whatever screen is shown.
speakTextCall(text) ==
    /\ speakText(text, availableVoices, selectedVoiceURI)
    /\ UNCHANGED <<sessionVars, outsideVars, historyVars, recognition, recResulted,
                   hasSpeechRecognition, openingCall, feedbackCalls, summaryCalls>>

\* setSelectedVoiceURI(e.target.value) from the voice select of
\* ProfileSettingsScreen (lines 659-663), whose options are availableVoices.
\* The session screen is another route, so it is not mounted meanwhile.
setSelectedVoiceURI(uri) ==
    /\ ~mounted
    /\ \E k \in 1..Len(availableVoices) : availableVoices[k].voiceURI = uri
    /\ selectedVoiceURI' = uri
    /\ userSelected' = TRUE
    /\ UNCHANGED <<sessionVars, platformVars, historyVars, componentVars, translateVars,
                   availableVoices>>

---------------------------------------------------------------------------
(* SettingsProvider: translate and its cache *)

\* translationCache.current = {}: no entry for any text (undefined)
NoTranslations == [text \in UiTexts |-> [lang \in Languages |-> Null]]

\* no translate promise has settled yet
NoResult == [text |-> Null, value |-> Null]

\* setLanguage (lines 642, 648)
setLanguage(lang) ==
    /\ language' = lang
    /\ UNCHANGED <<sessionVars, platformVars, historyVars, componentVars, voiceVars,
                   translationCache, translateCalls, translateIssued,
                   translateResult>>

\* translate done wrong: no early return for English (line 55 left out)
translateNoBaseLanguage(text) ==
    /\ IF Truthy(translationCache[text][language])
       THEN /\ translateResult' = [text |-> text,
                                   value |-> translationCache[text][language]]
            /\ UNCHANGED <<translateCalls, translateIssued>>
       ELSE /\ translateIssued[text] < MaxTranslateCalls
            /\ translateCalls' = Append(translateCalls,
                                        [text |-> text, language |-> language])
            /\ translateIssued' = [translateIssued EXCEPT ![text] = @ + 1]
            /\ UNCHANGED translateResult
    /\ UNCHANGED <<sessionVars, platformVars, historyVars, componentVars, voiceVars, language,
                   translationCache>>

\* translate up to its await (lines 54-60), as the callback of a render whose
\* language is lang (useCallback, line 68).
translateOf(lang, text) ==
    IF lang = "English"
    THEN /\ translateResult' = [text |-> text, value |-> text]
         /\ UNCHANGED <<translateCalls, translateIssued>>
    ELSE IF Truthy(translationCache[text][lang])
    THEN /\ translateResult' = [text |-> text,
                                value |-> translationCache[text][lang]]
         /\ UNCHANGED <<translateCalls, translateIssued>>
    ELSE /\ translateIssued[text] < MaxTranslateCalls
         /\ translateCalls' = Append(translateCalls,
                                     [text |-> text, language |-> lang])
         /\ translateIssued' = [translateIssued EXCEPT ![text] = @ + 1]
         /\ UNCHANGED translateResult

\* translate called by the render whose language is the current one.
translate(text) ==
    /\ translateOf(language, text)
    /\ UNCHANGED <<sessionVars, platformVars, historyVars, componentVars,
                   voiceVars, language, translationCache>>

\* translate after the await (lines 62-67); language is the one of the
\* closure that made the call.
translateSettled(i, translated) ==
    /\ i \in 1..Len(translateCalls)
    /\ LET call == translateCalls[i]
       IN  /\ translateCalls' = RemoveAt(translateCalls, i)
           /\ translationCache' =
                  [translationCache EXCEPT ![call.text][call.language] = translated]
           /\ translateResult' = [text |-> call.text, value |-> translated]
    /\ UNCHANGED translateIssued

\* a translateText call resolves, its translate having been called by a
\* consumer that keeps no state of its own
translateResolved(i, translated) ==
    /\ translateSettled(i, translated)
    /\ UNCHANGED <<sessionVars, platformVars, historyVars, componentVars,
                   voiceVars, language>>

---------------------------------------------------------------------------
(* T (lines 31-48): one instance, with the translate calls of its effects *)

\* what T may be given as children: a text of the interface, or none
TTexts == UiTexts \cup {<<>>}

\* the frame of T's steps
tFrame == <<sessionVars, platformVars, historyVars, voiceVars, guideVars>>

\* the cleanup of the effect (line 44): isMounted = false in the closure of
\* the effect that ran last (the flags of the earlier ones are false already)
TCleanup(thens) == [k \in 1..Len(thens) |-> FALSE]

\* the then-callback done wrong: the state is set without the test of
\* isMounted (line 41)
TThenUnguarded(isMounted, text) == text

\* the then-callback of lines 40-42: translatedText after it has run
TThen(isMounted, text) == IF isMounted THEN text ELSE translatedText

\* The effect of lines 35-45, run by a render with language lang and children
\* text while shown is displayed, the cleanup of the effect before it having
\* run first.  A translate that finds the text in the cache resolves in the
\* same task, before any other event, so its then-callback runs with
\* isMounted still true.
TEffect(lang, text, shown) ==
    IF lang = "English" \/ text = <<>>
    THEN /\ translatedText' = text
         /\ tThens' = TCleanup(tThens)
         /\ UNCHANGED <<translateCalls, translateIssued, translateResult>>
    ELSE /\ translateOf(lang, text)
         /\ IF Truthy(translationCache[text][lang])
            THEN /\ translatedText' = TThen(TRUE, translationCache[text][lang])
                 /\ tThens' = TCleanup(tThens)
            ELSE /\ translatedText' = shown
                 /\ tThens' = Append(TCleanup(tThens), TRUE)

\* T is mounted with children text: useState(children) (line 33), then the
\* effect
TMount(text) ==
    /\ ~tMounted
    /\ tMounted' = TRUE
    /\ children' = text
    /\ TEffect(language, text, text)
    /\ UNCHANGED <<language, translationCache, tLate, tFrame>>

\* T's parent renders it with other children: the dependency of line 45
\* changes, so the cleanup and the effect run
TRender(text) ==
    /\ tMounted /\ text # children
    /\ children' = text
    /\ TEffect(language, text, translatedText)
    /\ UNCHANGED <<tMounted, language, translationCache, tLate, tFrame>>

\* setLanguage (lines 642, 648) with another language: when T is on screen,
\* language and translate change (lines 45, 68), so the cleanup and the
\* effect run
TSetLanguage(lang) ==
    /\ lang # language
    /\ language' = lang
    /\ IF tMounted
       THEN TEffect(lang, children, translatedText)
       ELSE UNCHANGED <<translatedText, tThens, translateCalls, translateIssued,
                        translateResult>>
    /\ UNCHANGED <<tMounted, children, translationCache, tLate, tFrame>>

\* T is unmounted: the cleanup runs (line 44) and React discards the state
TUnmount ==
    /\ tMounted
    /\ tMounted' = FALSE
    /\ children' = <<>>
    /\ translatedText' = <<>>
    /\ tThens' = TCleanup(tThens)
    /\ UNCHANGED <<translateVars, tLate, tFrame>>

\* The translateText call of one of T's effects resolves: translate goes on
\* after its await (lines 62-67), then the then-callback of that effect runs
\* (lines 40-42).  Setting the state of an unmounted component does nothing.
TTranslateResolved(i, translated) ==
    /\ translateSettled(i, translated)
    /\ i \in 1..Len(tThens)
    /\ tThens' = RemoveAt(tThens, i)
    /\ translatedText' = IF tMounted THEN TThen(tThens[i], translated)
                                     ELSE translatedText
    /\ tLate' = (tLate \/ ~tThens[i])
    /\ UNCHANGED <<tMounted, children, language, tFrame>>

---------------------------------------------------------------------------
(* GuideScreen (lines 422-548): handleSend and its continuations.  A text is *)
(* a sequence of characters; the phrase 'analyze my skills' is written "a"   *)
(* and 'practice for an interview' "p".                                      *)

\* getInitialMessage() (line 424), the AI's greeting
InitialMessage == [author |-> "AI", text |-> <<"w">>]

\* what the user may type, and the texts of the quick actions (lines 513-516)
QuickActionTexts == {<<"A">>, <<"P">>, <<"x">>}
GuideTexts == {<<>>, <<" ">>} \cup QuickActionTexts

\* the phrases handleSend looks for (lines 452, 469)
AnalyzePhrase == <<"a">>
PracticePhrase == <<"p">>

\* the texts of the AI's own messages (lines 459, 470)
AnalysisText == <<"s">>
PracticeText == <<"i">>

\* String.prototype.toLowerCase
LowerOf(c) == CASE c = "A" -> "a" [] c = "P" -> "p" [] OTHER -> c
ToLowerCase(text) == [k \in 1..Len(text) |-> LowerOf(text[k])]

\* String.prototype.includes
Includes(text, phrase) ==
    \E k \in 0..(Len(text) - Len(phrase)) :
        SubSeq(text, k + 1, k + Len(phrase)) = phrase

\* the user's messages among msgs
Sent(msgs) == Len(SelectSeq(msgs, LAMBDA m : m.author = "USER"))

\* the frame of GuideScreen's steps
guideFrame == <<started, interviewState, currentQuestion, stagedNextQuestion,
                userTranscript, feedback, interviewHistory, summary,
                recognitionRef, onresultQuestion, recognition, recResulted,
                hasSpeechRecognition, openingCall, feedbackCalls, summaryCalls,
                settingsVars, historyVars, tVars>>

\* handleSend done wrong: no test of isLoading on line 439
handleSendNoLoadingTest(messageText) ==
    IF Trim(messageText) = <<>>
    THEN /\ sendIgnored' = sendIgnored \cup {"blank"}
         /\ UNCHANGED <<messages, input, isLoading, guideCalls, navigateTimer,
                        utterances>>
    ELSE LET lower == ToLowerCase(messageText)
             sent == Append(messages, [author |-> "USER", text |-> messageText])
         IN  /\ input' = <<>>
             /\ UNCHANGED sendIgnored
             /\ IF Includes(lower, AnalyzePhrase)
                THEN /\ messages' = sent
                     /\ isLoading' = TRUE
                     /\ guideCalls' = Append(guideCalls, "generateSkillAnalysis")
                     /\ UNCHANGED <<navigateTimer, utterances>>
                ELSE IF Includes(lower, PracticePhrase)
                THEN /\ messages' = Append(sent, [author |-> "AI",
                                                  text |-> PracticeText])
                     /\ isLoading' = FALSE
                     /\ speakText(PracticeText, availableVoices, selectedVoiceURI)
                     /\ navigateTimer' = TRUE
                     /\ UNCHANGED guideCalls
                ELSE /\ messages' = sent
                     /\ isLoading' = TRUE
                     /\ guideCalls' = Append(guideCalls, "sendMessageToAI")
                     /\ UNCHANGED <<navigateTimer, utterances>>

\* handleSend up to its await (lines 438-476), and in the branch that has no
\* await to its end (lines 469-473, 482): the updates of one run are one
\* batch, so isLoading is false after it.
handleSend(messageText) ==
    IF Trim(messageText) = <<>> \/ isLoading
    THEN /\ sendIgnored' = sendIgnored \cup
                              {IF Trim(messageText) = <<>> THEN "blank"
                                                           ELSE "loading"}
         /\ UNCHANGED <<messages, input, isLoading, guideCalls, navigateTimer,
                        utterances>>
    ELSE LET lower == ToLowerCase(messageText)
             sent == Append(messages, [author |-> "USER", text |-> messageText])
         IN  /\ input' = <<>>
             /\ UNCHANGED sendIgnored
             /\ IF Includes(lower, AnalyzePhrase)
                THEN /\ messages' = sent
                     /\ isLoading' = TRUE
                     /\ guideCalls' = Append(guideCalls, "generateSkillAnalysis")
                     /\ UNCHANGED <<navigateTimer, utterances>>
                ELSE IF Includes(lower, PracticePhrase)
                THEN /\ messages' = Append(sent, [author |-> "AI",
                                                  text |-> PracticeText])
                     /\ isLoading' = FALSE
                     /\ speakText(PracticeText, availableVoices, selectedVoiceURI)
                     /\ navigateTimer' = TRUE
                     /\ UNCHANGED guideCalls
                ELSE /\ messages' = sent
                     /\ isLoading' = TRUE
                     /\ guideCalls' = Append(guideCalls, "sendMessageToAI")
                     /\ UNCHANGED <<navigateTimer, utterances>>

\* handleSend called with messageText on the mounted screen, whatever the
\* screen offers at that time
handleSendCalled(messageText) ==
    /\ guideMounted
    /\ Trim(messageText) # <<>> => Sent(messages) < MaxSends
    /\ handleSend(messageText)
    /\ UNCHANGED <<guideMounted, skillAnalysis, mounted, guideFrame>>

\* the input's onChange (line 538); the input is disabled while loading
\* (line 540)
onChange(text) ==
    /\ guideMounted /\ ~isLoading
    /\ text # input
    /\ input' = text
    /\ UNCHANGED <<guideMounted, messages, isLoading, guideCalls, navigateTimer,
                   skillAnalysis, sendIgnored, utterances, mounted, guideFrame>>

\* Enter in the input (line 539) and the send button (line 542), which is
\* disabled as well when the input is blank
onSend ==
    /\ guideMounted /\ ~isLoading
    /\ Trim(input) # <<>> => Sent(messages) < MaxSends
    /\ handleSend(input)
    /\ UNCHANGED <<guideMounted, skillAnalysis, mounted, guideFrame>>

\* a quick action (lines 513-516), rendered while there is one message at
\* most (line 511)
onQuickAction(text) ==
    /\ guideMounted /\ Len(messages) <= 1
    /\ handleSend(text)
    /\ UNCHANGED <<guideMounted, skillAnalysis, mounted, guideFrame>>

\* handleSend after the await of line 456, the call resolved (lines 457-464,
\* 482).  setSkillAnalysis is the setter of the UserData context and
\* speakText the provider's, so both act whatever screen is mounted.
handleSendAnalysisResolved(i) ==
    /\ i \in 1..Len(guideCalls)
    /\ guideCalls[i] = "generateSkillAnalysis"
    /\ guideCalls' = RemoveAt(guideCalls, i)
    /\ skillAnalysis' = "result"
    /\ IF guideMounted
       THEN /\ messages' = Append(messages, [author |-> "AI", text |-> AnalysisText])
            /\ isLoading' = FALSE
       ELSE UNCHANGED <<messages, isLoading>>
    /\ speakText(AnalysisText, availableVoices, selectedVoiceURI)
    /\ UNCHANGED <<guideMounted, input, navigateTimer, sendIgnored, mounted,
                   guideFrame>>

\* handleSend after the await of line 456 done wrong: no catch (lines 465-468
\* left out), the rejection ends handleSend
handleSendAnalysisRejectedNoCatch(i) ==
    /\ i \in 1..Len(guideCalls)
    /\ guideCalls[i] = "generateSkillAnalysis"
    /\ guideCalls' = RemoveAt(guideCalls, i)
    /\ UNCHANGED <<guideMounted, messages, isLoading, input, navigateTimer,
                   skillAnalysis, sendIgnored, utterances, mounted, guideFrame>>

\* handleSend after the await of line 456, the call rejected (lines 465-468,
\* 482)
handleSendAnalysisRejected(i) ==
    /\ i \in 1..Len(guideCalls)
    /\ guideCalls[i] = "generateSkillAnalysis"
    /\ guideCalls' = RemoveAt(guideCalls, i)
    /\ IF guideMounted
       THEN /\ messages' = Append(messages, [author |-> "AI", text |-> ErrorMessage])
            /\ isLoading' = FALSE
       ELSE UNCHANGED <<messages, isLoading>>
    /\ UNCHANGED <<guideMounted, input, navigateTimer, skillAnalysis, sendIgnored,
                   utterances, mounted, guideFrame>>

\* handleSend after the await of line 476 (lines 477-482)
handleSendChatResolved(i, aiResponseText) ==
    /\ i \in 1..Len(guideCalls)
    /\ guideCalls[i] = "sendMessageToAI"
    /\ guideCalls' = RemoveAt(guideCalls, i)
    /\ IF guideMounted
       THEN /\ messages' = Append(messages, [author |-> "AI",
                                             text |-> aiResponseText])
            /\ isLoading' = FALSE
       ELSE UNCHANGED <<messages, isLoading>>
    /\ speakText(aiResponseText, availableVoices, selectedVoiceURI)
    /\ UNCHANGED <<guideMounted, input, navigateTimer, skillAnalysis, sendIgnored,
                   mounted, guideFrame>>

\* GuideScreen is unmounted: it has no cleanup, React discards its state
\* (shown here as the useState initialisers of lines 424-426)
GuideUnmount ==
    /\ guideMounted' = FALSE
    /\ messages' = <<InitialMessage>>
    /\ input' = <<>>
    /\ isLoading' = FALSE

\* the user leaves for another screen by the BottomNav of the AppShell
\* (lines 910, 931)
onLeave ==
    /\ guideMounted
    /\ GuideUnmount
    /\ UNCHANGED <<guideCalls, navigateTimer, skillAnalysis, sendIgnored,
                   utterances, mounted, guideFrame>>

\* the timeout of line 473: navigate('/interview-session') unmounts the
\* screen shown and mounts MockInterviewSessionScreen
navigateTimeout ==
    /\ navigateTimer
    /\ navigateTimer' = FALSE
    /\ GuideUnmount
    /\ mounted' = TRUE
    /\ UNCHANGED <<guideCalls, skillAnalysis, sendIgnored, utterances, guideFrame>>

---------------------------------------------------------------------------
(* The platform's speech-capture session (SpeechRecognition, continuous =    *)
(* false), as the Web Speech API specifies it: between start() and its end   *)
(* event a session delivers at most one result and may report an error,      *)
(* before or after the result; after an error only the end event follows.    *)
(* The events are tasks of the event loop, so user input and collaborator    *)
(* responses interleave with them.                                           *)

\* recognition.start(): throws InvalidStateError when a session is running
RecognitionStart ==
    IF recognition = "inactive"
    THEN recognition' = "active" /\ recResulted' = FALSE
    ELSE UNCHANGED <<recognition, recResulted>>

\* recognition.stop()
RecognitionStop ==
    /\ recognition' = IF recognition = "active" THEN "stopping" ELSE recognition
    /\ UNCHANGED recResulted

---------------------------------------------------------------------------
(* MockInterviewSessionScreen *)

\* The mount effect (lines 712-713) calling startInterview up to its await
\* (lines 705-707).
startInterview ==
    /\ mounted /\ ~started
    /\ started' = TRUE
    /\ interviewState' = "PROCESSING"
    /\ openingCall' = "pending"
    /\ UNCHANGED outsideVars
    /\ SpeakEffect(TRUE, currentQuestion, interviewState', spoken)
    /\ UNCHANGED <<mounted, currentQuestion, stagedNextQuestion, userTranscript,
                   feedback, interviewHistory, summary, recognitionRef,
                   onresultQuestion, recognition, recResulted,
                   hasSpeechRecognition, feedbackCalls, summaryCalls, issued,
                   turnsInOrder, lateResponse>>

\* startInterview after the await done wrong: the question is spoken by the
\* continuation itself (as GuideScreen does, line 472), not by the effect.
startInterviewResolvedSpeaks(firstQuestion) ==
    /\ openingCall = "pending"
    /\ openingCall' = "done"
    /\ lateResponse' = (lateResponse \/ ~mounted)
    /\ UNCHANGED outsideVars
    /\ speakText(StripAsterisks(firstQuestion), availableVoices, selectedVoiceURI)
    /\ IF mounted
       THEN /\ currentQuestion' = StripAsterisks(firstQuestion)
            /\ interviewState' = "AWAITING_ANSWER"
            /\ spoken' = "once"
       ELSE UNCHANGED <<currentQuestion, interviewState, spoken>>
    /\ UNCHANGED <<mounted, started, stagedNextQuestion, userTranscript, feedback,
                   interviewHistory, summary, recognitionRef, onresultQuestion,
                   recognition, recResulted, hasSpeechRecognition, feedbackCalls,
                   summaryCalls, issued, turnsInOrder>>

\* startInterview after the await (lines 708-709).
startInterviewResolved(firstQuestion) ==
    /\ openingCall = "pending"
    /\ openingCall' = "done"
    /\ lateResponse' = (lateResponse \/ ~mounted)
    /\ UNCHANGED outsideVars
    /\ IF mounted
       THEN /\ currentQuestion' = StripAsterisks(firstQuestion)
            /\ interviewState' = "AWAITING_ANSWER"
            /\ SpeakEffect(TRUE, currentQuestion', interviewState', "never")
       ELSE UNCHANGED <<currentQuestion, interviewState, utterances, spoken>>
    /\ UNCHANGED <<mounted, started, stagedNextQuestion, userTranscript, feedback,
                   interviewHistory, summary, recognitionRef, onresultQuestion,
                   recognition, recResulted, hasSpeechRecognition, feedbackCalls,
                   summaryCalls, issued, turnsInOrder>>

\* The cleanup of the mount effect (lines 714-721), run when the screen is
\* unmounted.
Teardown ==
    /\ utterances' = NoUtterance
    /\ IF recognitionRef # "null" THEN RecognitionStop
                                  ELSE UNCHANGED <<recognition, recResulted>>

\* navigate('/guide') from the session screen (lines 732, 860, 866, 876): the
\* route changes, the screen is unmounted, its cleanup runs and React discards
\* its state (shown here as the useState initialisers of lines 694-701).  The
\* recognition object and its handlers outlive the component.
navigate ==
    /\ mounted' = FALSE
    /\ Teardown
    /\ interviewState' = "STARTING"
    /\ currentQuestion' = <<>>
    /\ stagedNextQuestion' = Null
    /\ userTranscript' = <<>>
    /\ feedback' = <<>>
    /\ interviewHistory' = <<>>
    /\ summary' = <<>>
    /\ turnsInOrder' = TRUE
    /\ spoken' = "never"
    /\ UNCHANGED <<started, recognitionRef, onresultQuestion, hasSpeechRecognition,
                   openingCall, feedbackCalls, summaryCalls, outsideVars, issued,
                   lateResponse>>

\* The header's back button (line 876) and, once COMPLETED, the back button
\* and "Back to Guide" (lines 860, 866).
onBack ==
    /\ mounted /\ started
    /\ navigate

\* handleEndInterview done wrong: no test for an empty history (lines 731-734
\* left out), the summary is asked for whatever the history.
handleEndInterviewAlwaysSummarizes(isNaturalEnd) ==
    /\ interviewState' = "PROCESSING_SUMMARY"
    /\ summaryCalls' = Append(summaryCalls, interviewHistory)
    /\ UNCHANGED outsideVars
    /\ SpeakEffect(TRUE, currentQuestion, interviewState', spoken)
    /\ UNCHANGED <<mounted, started, currentQuestion, stagedNextQuestion,
                   userTranscript, feedback, interviewHistory, summary,
                   recognitionRef, onresultQuestion, recognition,
                   recResulted, hasSpeechRecognition, openingCall,
                   feedbackCalls, issued, turnsInOrder, lateResponse>>

\* handleEndInterview up to its await (lines 730-737); interviewHistory is the
\* one of the render whose button was pressed.
handleEndInterview(isNaturalEnd) ==
    IF Len(interviewHistory) = 0 /\ ~isNaturalEnd
    THEN navigate
    ELSE /\ interviewState' = "PROCESSING_SUMMARY"
         /\ summaryCalls' = Append(summaryCalls, interviewHistory)
         /\ UNCHANGED outsideVars
         /\ SpeakEffect(TRUE, currentQuestion, interviewState', spoken)
         /\ UNCHANGED <<mounted, started, currentQuestion, stagedNextQuestion,
                        userTranscript, feedback, interviewHistory, summary,
                        recognitionRef, onresultQuestion, recognition,
                        recResulted, hasSpeechRecognition, openingCall,
                        feedbackCalls, issued, turnsInOrder, lateResponse>>

\* "End Interview" on the feedback card (line 844)
onEndInterviewClick ==
    /\ mounted /\ interviewState = "DISPLAYING_FEEDBACK"
    /\ handleEndInterview(FALSE)

\* handleEndInterview after the await done wrong: a failed summary call is
\* dropped, and the session stays where it is.
handleEndInterviewResolvedDropsFailure(i, finalSummary) ==
    /\ i \in 1..Len(summaryCalls)
    /\ summaryCalls' = RemoveAt(summaryCalls, i)
    /\ lateResponse' = (lateResponse \/ ~mounted)
    /\ UNCHANGED outsideVars
    /\ IF mounted /\ finalSummary # ErrorMessage
       THEN /\ summary' = StripAsterisks(finalSummary)
            /\ interviewState' = "COMPLETED"
            /\ SpeakEffect(interviewState' # interviewState, currentQuestion,
                           interviewState', spoken)
       ELSE UNCHANGED <<summary, interviewState, utterances, spoken>>
    /\ UNCHANGED <<mounted, started, currentQuestion, stagedNextQuestion,
                   userTranscript, feedback, interviewHistory, recognitionRef,
                   onresultQuestion, recognition, recResulted,
                   hasSpeechRecognition, openingCall, feedbackCalls, issued,
                   turnsInOrder>>

\* handleEndInterview after the await (lines 738-739)
handleEndInterviewResolved(i, finalSummary) ==
    /\ i \in 1..Len(summaryCalls)
    /\ summaryCalls' = RemoveAt(summaryCalls, i)
    /\ lateResponse' = (lateResponse \/ ~mounted)
    /\ UNCHANGED outsideVars
    /\ IF mounted
       THEN /\ summary' = StripAsterisks(finalSummary)
            /\ interviewState' = "COMPLETED"
            /\ SpeakEffect(interviewState' # interviewState, currentQuestion,
                           interviewState', spoken)
       ELSE UNCHANGED <<summary, interviewState, utterances, spoken>>
    /\ UNCHANGED <<mounted, started, currentQuestion, stagedNextQuestion,
                   userTranscript, feedback, interviewHistory, recognitionRef,
                   onresultQuestion, recognition, recResulted,
                   hasSpeechRecognition, openingCall, feedbackCalls, issued,
                   turnsInOrder>>

\* handleAnswerSubmission up to its await (lines 743-749), as called with the
\* currentQuestion its closure holds.  feedbackCalls lists the calls in flight
\* in the order they were issued.  A state setter of an unmounted
\* component changes nothing; the collaborator call is made all the same.
handleAnswerSubmission(transcript, question) ==
    IF Trim(transcript) = <<>>
    THEN /\ interviewState' = IF mounted THEN "AWAITING_ANSWER" ELSE interviewState
         /\ UNCHANGED <<feedbackCalls, issued>>
    ELSE /\ interviewState' = IF mounted THEN "PROCESSING" ELSE interviewState
         /\ feedbackCalls' = Append(feedbackCalls,
                                    [question |-> question, transcript |-> transcript])
         /\ issued' = issued + 1

\* handleAnswerSubmission after the await done wrong: the turn is appended to
\* the interviewHistory of the render that installed the handler, which is
\* empty, instead of to the previous value (line 755).
handleAnswerSubmissionResolvedStaleHistory(i, response) ==
    /\ i \in 1..Len(feedbackCalls)
    /\ LET call == feedbackCalls[i]
           cleanedFeedback == StripAsterisks(response.feedback)
           cleanedNextQuestion ==
               IF Truthy(response.nextQuestion)
               THEN StripAsterisks(response.nextQuestion)
               ELSE Null
       IN  /\ feedbackCalls' = RemoveAt(feedbackCalls, i)
           /\ lateResponse' = (lateResponse \/ ~mounted)
           /\ UNCHANGED outsideVars
           /\ IF mounted
              THEN /\ feedback' = cleanedFeedback
                   /\ interviewHistory' =
                          <<[question |-> call.question,
                             answer |-> call.transcript,
                             feedback |-> cleanedFeedback]>>
                   /\ turnsInOrder' = (turnsInOrder /\ i = 1)
                   /\ stagedNextQuestion' = cleanedNextQuestion
                   /\ interviewState' = "DISPLAYING_FEEDBACK"
                   /\ SpeakEffect(interviewState' # interviewState, currentQuestion,
                                  interviewState', spoken)
              ELSE UNCHANGED <<feedback, interviewHistory, stagedNextQuestion,
                               interviewState, utterances, spoken, turnsInOrder>>
    /\ UNCHANGED <<mounted, started, currentQuestion, userTranscript, summary,
                   recognitionRef, onresultQuestion, recognition, recResulted,
                   hasSpeechRecognition, openingCall, summaryCalls, issued>>

\* handleAnswerSubmission after the await done wrong: the turn is not recorded
\* (lines 755-759 left out).
handleAnswerSubmissionResolvedNoAppend(i, response) ==
    /\ i \in 1..Len(feedbackCalls)
    /\ LET cleanedFeedback == StripAsterisks(response.feedback)
           cleanedNextQuestion ==
               IF Truthy(response.nextQuestion)
               THEN StripAsterisks(response.nextQuestion)
               ELSE Null
       IN  /\ feedbackCalls' = RemoveAt(feedbackCalls, i)
           /\ lateResponse' = (lateResponse \/ ~mounted)
           /\ UNCHANGED outsideVars
           /\ IF mounted
              THEN /\ feedback' = cleanedFeedback
                   /\ turnsInOrder' = (turnsInOrder /\ i = 1)
                   /\ stagedNextQuestion' = cleanedNextQuestion
                   /\ interviewState' = "DISPLAYING_FEEDBACK"
                   /\ SpeakEffect(interviewState' # interviewState, currentQuestion,
                                  interviewState', spoken)
              ELSE UNCHANGED <<feedback, stagedNextQuestion, interviewState,
                               utterances, spoken, turnsInOrder>>
    /\ UNCHANGED <<mounted, started, currentQuestion, userTranscript, summary,
                   recognitionRef, onresultQuestion, recognition, recResulted,
                   hasSpeechRecognition, openingCall, summaryCalls, issued,
                   interviewHistory>>

\* handleAnswerSubmission after the await (lines 751-762)
handleAnswerSubmissionResolved(i, response) ==
    /\ i \in 1..Len(feedbackCalls)
    /\ LET call == feedbackCalls[i]
           cleanedFeedback == StripAsterisks(response.feedback)
           cleanedNextQuestion ==
               IF Truthy(response.nextQuestion)
               THEN StripAsterisks(response.nextQuestion)
               ELSE Null
       IN  /\ feedbackCalls' = RemoveAt(feedbackCalls, i)
           /\ lateResponse' = (lateResponse \/ ~mounted)
           /\ UNCHANGED outsideVars
           /\ IF mounted
              THEN /\ feedback' = cleanedFeedback
                   /\ interviewHistory' =
                          Append(interviewHistory,
                                 [question |-> call.question,
                                  answer |-> call.transcript,
                                  feedback |-> cleanedFeedback])
                   /\ turnsInOrder' = (turnsInOrder /\ i = 1)
                   /\ stagedNextQuestion' = cleanedNextQuestion
                   /\ interviewState' = "DISPLAYING_FEEDBACK"
                   /\ SpeakEffect(interviewState' # interviewState, currentQuestion,
                                  interviewState', spoken)
              ELSE UNCHANGED <<feedback, interviewHistory, stagedNextQuestion,
                               interviewState, utterances, spoken, turnsInOrder>>
    /\ UNCHANGED <<mounted, started, currentQuestion, userTranscript, summary,
                   recognitionRef, onresultQuestion, recognition, recResulted,
                   hasSpeechRecognition, openingCall, summaryCalls, issued>>

\* recognition.onresult (lines 782-786).  The handler is the one installed
\* when the recognition object was created (line 777 skips the block
\* afterwards), so the handleAnswerSubmission it calls reads the
\* currentQuestion of that render.
onresult(transcript) ==
    /\ recognition \in {"active", "stopping"} /\ ~recResulted
    /\ Trim(transcript) # <<>> => issued < MaxTurns
    /\ recResulted' = TRUE
    /\ userTranscript' = IF mounted THEN transcript ELSE userTranscript
    /\ handleAnswerSubmission(transcript, onresultQuestion)
    /\ UNCHANGED outsideVars
    /\ SpeakEffect(interviewState' # interviewState, currentQuestion,
                   interviewState', spoken)
    /\ UNCHANGED <<mounted, started, currentQuestion, stagedNextQuestion, feedback,
                   interviewHistory, summary, recognitionRef, onresultQuestion,
                   recognition, hasSpeechRecognition, openingCall, summaryCalls,
                   turnsInOrder, lateResponse>>

\* recognition.onend done wrong: the handler of line 787 left out, the end of
\* the capture session changes no state of the screen.
onendNotHandled ==
    /\ recognition # "inactive"
    /\ recognition' = "inactive"
    /\ UNCHANGED <<sessionVars, outsideVars, historyVars, recResulted,
                   hasSpeechRecognition, openingCall, feedbackCalls, summaryCalls,
                   utterances>>

\* recognition.onend done wrong: the phase is set without the test of the
\* previous phase (line 787 written as line 788 is).
onendUnguarded ==
    /\ recognition # "inactive"
    /\ recognition' = "inactive"
    /\ interviewState' = IF mounted THEN "AWAITING_ANSWER" ELSE interviewState
    /\ UNCHANGED outsideVars
    /\ SpeakEffect(interviewState' # interviewState, currentQuestion,
                   interviewState', spoken)
    /\ UNCHANGED <<mounted, started, currentQuestion, stagedNextQuestion,
                   userTranscript, feedback, interviewHistory, summary,
                   recognitionRef, onresultQuestion, recResulted,
                   hasSpeechRecognition, openingCall, feedbackCalls, summaryCalls,
                   issued, turnsInOrder, lateResponse>>

\* recognition.onend (line 787)
onend ==
    /\ recognition # "inactive"
    /\ recognition' = "inactive"
    /\ interviewState' = IF mounted /\ interviewState = "LISTENING"
                         THEN "AWAITING_ANSWER"
                         ELSE interviewState
    /\ UNCHANGED outsideVars
    /\ SpeakEffect(interviewState' # interviewState, currentQuestion,
                   interviewState', spoken)
    /\ UNCHANGED <<mounted, started, currentQuestion, stagedNextQuestion,
                   userTranscript, feedback, interviewHistory, summary,
                   recognitionRef, onresultQuestion, recResulted,
                   hasSpeechRecognition, openingCall, feedbackCalls, summaryCalls,
                   issued, turnsInOrder, lateResponse>>

\* recognition.onerror done wrong: the phase is set only when the previous
\* phase is LISTENING (line 788 written as line 787 is).
onerrorGuarded ==
    /\ recognition \in {"active", "stopping"}
    /\ recognition' = "errored"
    /\ interviewState' = IF mounted /\ interviewState = "LISTENING"
                         THEN "AWAITING_ANSWER"
                         ELSE interviewState
    /\ UNCHANGED outsideVars
    /\ SpeakEffect(interviewState' # interviewState, currentQuestion,
                   interviewState', spoken)
    /\ UNCHANGED <<mounted, started, currentQuestion, stagedNextQuestion,
                   userTranscript, feedback, interviewHistory, summary,
                   recognitionRef, onresultQuestion, recResulted,
                   hasSpeechRecognition, openingCall, feedbackCalls, summaryCalls,
                   issued, turnsInOrder, lateResponse>>

\* recognition.onerror (line 788)
onerror ==
    /\ recognition \in {"active", "stopping"}
    /\ recognition' = "errored"
    /\ interviewState' = IF mounted THEN "AWAITING_ANSWER" ELSE interviewState
    /\ UNCHANGED outsideVars
    /\ SpeakEffect(interviewState' # interviewState, currentQuestion,
                   interviewState', spoken)
    /\ UNCHANGED <<mounted, started, currentQuestion, stagedNextQuestion,
                   userTranscript, feedback, interviewHistory, summary,
                   recognitionRef, onresultQuestion, recResulted,
                   hasSpeechRecognition, openingCall, feedbackCalls, summaryCalls,
                   issued, turnsInOrder, lateResponse>>

\* handleToggleListening (lines 765-795), the microphone button, which is
\* rendered in AWAITING_ANSWER and LISTENING (lines 824-833).
handleToggleListening ==
    /\ mounted /\ interviewState \in {"AWAITING_ANSWER", "LISTENING"}
    /\ IF ~hasSpeechRecognition
       THEN UNCHANGED vars
       ELSE IF interviewState = "LISTENING"
       THEN /\ IF recognitionRef # "null" THEN RecognitionStop
                                          ELSE UNCHANGED <<recognition, recResulted>>
            /\ UNCHANGED <<sessionVars, outsideVars, historyVars, hasSpeechRecognition,
                           openingCall, feedbackCalls, summaryCalls, utterances>>
       ELSE /\ recognitionRef' = "recognition"
            /\ onresultQuestion' = IF recognitionRef = "null" THEN currentQuestion
                                                              ELSE onresultQuestion
            /\ interviewState' = "LISTENING"
            /\ userTranscript' = <<>>
            /\ RecognitionStart
            /\ UNCHANGED outsideVars
            /\ SpeakEffect(TRUE, currentQuestion, interviewState', spoken)
            /\ UNCHANGED <<mounted, started, currentQuestion, stagedNextQuestion,
                           feedback, interviewHistory, summary,
                           hasSpeechRecognition, openingCall, feedbackCalls,
                           summaryCalls, issued, turnsInOrder, lateResponse>>

\* handleNextQuestion done wrong: no test of stagedNextQuestion, the staged
\* value is posed even when there is none.
handleNextQuestionAlwaysPoses ==
    /\ mounted /\ interviewState = "DISPLAYING_FEEDBACK"
    /\ currentQuestion' = IF Truthy(stagedNextQuestion) THEN stagedNextQuestion
                                                        ELSE <<>>
    /\ feedback' = <<>>
    /\ userTranscript' = <<>>
    /\ stagedNextQuestion' = Null
    /\ interviewState' = "AWAITING_ANSWER"
    /\ UNCHANGED outsideVars
    /\ SpeakEffect(TRUE, currentQuestion', interviewState', "never")
    /\ UNCHANGED <<mounted, started, interviewHistory, summary,
                   recognitionRef, onresultQuestion, recognition,
                   recResulted, hasSpeechRecognition, openingCall,
                   feedbackCalls, summaryCalls, issued, turnsInOrder,
                   lateResponse>>

\* handleNextQuestion (lines 797-807), "Next Question" on the feedback card
\* (line 847)
handleNextQuestion ==
    /\ mounted /\ interviewState = "DISPLAYING_FEEDBACK"
    /\ IF Truthy(stagedNextQuestion)
       THEN /\ currentQuestion' = stagedNextQuestion
            /\ feedback' = <<>>
            /\ userTranscript' = <<>>
            /\ stagedNextQuestion' = Null
            /\ interviewState' = "AWAITING_ANSWER"
            /\ UNCHANGED outsideVars
            /\ SpeakEffect(TRUE, currentQuestion', interviewState', "never")
            /\ UNCHANGED <<mounted, started, interviewHistory, summary,
                           recognitionRef, onresultQuestion, recognition,
                           recResulted, hasSpeechRecognition, openingCall,
                           feedbackCalls, summaryCalls, issued, turnsInOrder,
                           lateResponse>>
       ELSE handleEndInterview(TRUE)

---------------------------------------------------------------------------
(* The session: one mount of MockInterviewSessionScreen *)

\* MockInterviewSessionScreen as mounted or not, in its first render
FirstRender(isMounted) ==
    /\ mounted = isMounted
    /\ started = FALSE
    /\ interviewState = "STARTING"
    /\ currentQuestion = <<>>
    /\ stagedNextQuestion = Null
    /\ userTranscript = <<>>
    /\ feedback = <<>>
    /\ interviewHistory = <<>>
    /\ summary = <<>>
    /\ recognitionRef = "null"
    /\ onresultQuestion = <<>>
    /\ recognition = "inactive"
    /\ recResulted = FALSE
    /\ hasSpeechRecognition \in BOOLEAN
    /\ openingCall = "none"
    /\ feedbackCalls = <<>>
    /\ summaryCalls = <<>>
    /\ issued = 0
    /\ turnsInOrder = TRUE
    /\ spoken = "never"
    /\ lateResponse = FALSE

\* SettingsProvider after its first render (lines 51-52, 70-71), the platform
\* having no voice to list yet
ProviderInit ==
    /\ language = "English"
    /\ translationCache = NoTranslations
    /\ translateCalls = <<>>
    /\ translateIssued = [text \in UiTexts |-> 0]
    /\ translateResult = NoResult
    /\ availableVoices = <<>>
    /\ selectedVoiceURI = NullURI
    /\ userSelected = FALSE
    /\ utterances = NoUtterance

\* no T on screen
NoT ==
    /\ tMounted = FALSE
    /\ children = <<>>
    /\ translatedText = <<>>
    /\ tThens = <<>>
    /\ tLate = FALSE

\* GuideScreen as mounted or not, in its first render (lines 424-426)
GuideFirstRender(isMounted) ==
    /\ guideMounted = isMounted
    /\ messages = <<InitialMessage>>
    /\ input = <<>>
    /\ isLoading = FALSE
    /\ guideCalls = <<>>
    /\ navigateTimer = FALSE
    /\ skillAnalysis = "null"
    /\ sendIgnored = {}

\* the session's route: neither T nor GuideScreen is followed
OtherScreensInit == NoT /\ GuideFirstRender(FALSE)

Init == FirstRender(TRUE) /\ ProviderInit /\ OtherScreensInit

Next ==
    \/ startInterview
    \/ \E firstQuestion \in OpeningResponses : startInterviewResolved(firstQuestion)
    \/ handleToggleListening
    \/ \E transcript \in Transcripts : onresult(transcript)
    \/ onend
    \/ onerror
    \/ \E i \in 1..MaxTurns, response \in FeedbackResponses :
           handleAnswerSubmissionResolved(i, response)
    \/ handleNextQuestion
    \/ onEndInterviewClick
    \/ \E i \in 1..MaxTurns, finalSummary \in SummaryResponses :
           handleEndInterviewResolved(i, finalSummary)
    \/ onBack

Spec == Init /\ [][Next]_vars

\* A collaborator call in flight resolves (with its result or with
\* ErrorMessage): no call stays pending for ever.
CollaboratorResolves ==
    \/ \E firstQuestion \in OpeningResponses : startInterviewResolved(firstQuestion)
    \/ \E i \in 1..MaxTurns, response \in FeedbackResponses :
           handleAnswerSubmissionResolved(i, response)
    \/ \E i \in 1..MaxTurns, finalSummary \in SummaryResponses :
           handleEndInterviewResolved(i, finalSummary)

FairSpec == Spec /\ WF_vars(CollaboratorResolves)

---------------------------------------------------------------------------
(* handleEndInterview as an operation of the screen: called with its default *)
(* argument by whatever render is on screen, and not only by the feedback    *)
(* card, which is its one caller in the code (line 844) and is rendered with *)
(* a non-empty history only.  The screen is left through this operation      *)
(* alone.                                                                    *)

\* the phases before COMPLETED
NonTerminalStates ==
    {"STARTING", "AWAITING_ANSWER", "LISTENING", "PROCESSING", "DISPLAYING_FEEDBACK"}

\* handleEndInterview() (line 730, isNaturalEnd = false)
endInterview ==
    /\ mounted /\ started /\ interviewState \in NonTerminalStates
    /\ Len(summaryCalls) < MaxSummaryCalls
    /\ handleEndInterview(FALSE)

EndNext ==
    \/ startInterview
    \/ \E firstQuestion \in OpeningResponses : startInterviewResolved(firstQuestion)
    \/ handleToggleListening
    \/ \E transcript \in Transcripts : onresult(transcript)
    \/ onend
    \/ onerror
    \/ \E i \in 1..MaxTurns, response \in FeedbackResponses :
           handleAnswerSubmissionResolved(i, response)
    \/ handleNextQuestion
    \/ endInterview
    \/ \E i \in 1..(MaxTurns + MaxSummaryCalls), finalSummary \in SummaryResponses :
           handleEndInterviewResolved(i, finalSummary)

EndSpec == Init /\ [][EndNext]_vars

---------------------------------------------------------------------------
(* SettingsProvider's translate, with the consumers of the context calling   *)
(* it and switching the language; no session screen is mounted.              *)

TranslateInit == FirstRender(FALSE) /\ ProviderInit /\ OtherScreensInit

TranslateNext ==
    \/ \E lang \in Languages : setLanguage(lang)
    \/ \E text \in UiTexts : translate(text)
    \/ \E i \in 1..(MaxTranslateCalls * Cardinality(UiTexts)),
          translated \in TranslationResponses : translateResolved(i, translated)

TranslateSpec == TranslateInit /\ [][TranslateNext]_vars

---------------------------------------------------------------------------
(* SettingsProvider's voice registry and speakText: the platform announces   *)
(* voice lists, the user picks a voice, consumers speak.  The session screen *)
(* is either not mounted or waiting for an answer to a question it has       *)
(* spoken.                                                                   *)

\* MockInterviewSessionScreen in AWAITING_ANSWER, its opening question posed
\* and spoken
SessionAwaiting ==
    /\ mounted = TRUE
    /\ started = TRUE
    /\ interviewState = "AWAITING_ANSWER"
    /\ currentQuestion = <<"a">>
    /\ stagedNextQuestion = Null
    /\ userTranscript = <<>>
    /\ feedback = <<>>
    /\ interviewHistory = <<>>
    /\ summary = <<>>
    /\ recognitionRef = "null"
    /\ onresultQuestion = <<>>
    /\ recognition = "inactive"
    /\ recResulted = FALSE
    /\ hasSpeechRecognition \in BOOLEAN
    /\ openingCall = "done"
    /\ feedbackCalls = <<>>
    /\ summaryCalls = <<>>
    /\ issued = 0
    /\ turnsInOrder = TRUE
    /\ spoken = "once"
    /\ lateResponse = FALSE

VoiceInit ==
    (FirstRender(FALSE) \/ SessionAwaiting) /\ ProviderInit /\ OtherScreensInit

\* the values of the options of the voice select (line 666)
VoiceURIs == {"en1", "en2"}

VoiceNext ==
    \/ \E platformVoices \in PlatformVoiceLists : loadVoices(platformVoices)
    \/ \E uri \in VoiceURIs : setSelectedVoiceURI(uri)
    \/ \E text \in SpokenTexts : speakTextCall(text)
    \/ utteranceEnd

VoiceSpec == VoiceInit /\ [][VoiceNext]_vars

---------------------------------------------------------------------------
(* T on some screen: it is mounted, given other children, unmounted, the    *)
(* language is switched, and the translateText calls of its effects resolve *)
(* in any order.                                                            *)

TInit == FirstRender(FALSE) /\ ProviderInit /\ OtherScreensInit

TNext ==
    \/ \E text \in TTexts : TMount(text) \/ TRender(text)
    \/ \E lang \in Languages : TSetLanguage(lang)
    \/ TUnmount
    \/ \E i \in 1..(MaxTranslateCalls * Cardinality(UiTexts)),
          translated \in TranslationResponses : TTranslateResolved(i, translated)

TSpec == TInit /\ [][TNext]_vars

---------------------------------------------------------------------------
(* One mount of GuideScreen.  handleSend is called through what the screen  *)
(* offers (onSend, onQuickAction) and directly (handleSendCalled), so that  *)
(* its guard of line 439 is met in every state.                             *)

GuideInit ==
    FirstRender(FALSE) /\ ProviderInit /\ NoT /\ GuideFirstRender(TRUE)

\* a collaborator call of handleSend completes
GuideCollaboratorResolves ==
    \E i \in 1..MaxSends :
        \/ handleSendAnalysisResolved(i)
        \/ handleSendAnalysisRejected(i)
        \/ \E aiResponseText \in OpeningResponses :
               handleSendChatResolved(i, aiResponseText)

GuideNext ==
    \/ \E text \in GuideTexts : handleSendCalled(text) \/ onChange(text)
    \/ onSend
    \/ \E text \in QuickActionTexts : onQuickAction(text)
    \/ GuideCollaboratorResolves
    \/ onLeave
    \/ navigateTimeout

GuideSpec == GuideInit /\ [][GuideNext]_vars

\* the collaborators answer every call in the end
FairGuideSpec == GuideSpec /\ WF_vars(GuideCollaboratorResolves)

---------------------------------------------------------------------------
(* Claims *)

\* C1: while the session lives, the history holds one turn per resolved
\* feedback call, and the k-th turn is the one of the k-th call issued: no
\* turn was appended ahead of the turn of an earlier call.
C1_HistoryInSubmissionOrder ==
    mounted =>
        /\ Len(interviewHistory) = issued - Len(feedbackCalls)
        /\ turnsInOrder

\* C2: every feedback call is made with the question on screen when the
\* transcript is captured (and the turn it produces records that question).
C2_SubmittedQuestionIsCurrent ==
    [][(mounted /\ Len(feedbackCalls') > Len(feedbackCalls)) =>
          feedbackCalls'[Len(feedbackCalls')].question = currentQuestion]_vars

\* C3: a question on screen in AWAITING_ANSWER has been spoken, and no
\* question is spoken more than once.
C3_SpokenExactlyOnce ==
    mounted =>
        /\ spoken # "repeatedly"
        /\ (interviewState = "AWAITING_ANSWER" /\ currentQuestion # <<>>)
               => spoken = "once"

\* C4: stagedNextQuestion is non-empty only in DISPLAYING_FEEDBACK; stated
\* for the phases the claim singles out: it is empty in PROCESSING_SUMMARY and
\* in COMPLETED.
C4_StagedEmptyAfterEnd ==
    (mounted /\ interviewState \in {"PROCESSING_SUMMARY", "COMPLETED"})
        => ~Truthy(stagedNextQuestion)

\* C5: summary is non-empty only in COMPLETED.
C5_SummaryOnlyWhenCompleted ==
    (mounted /\ summary # <<>>) => interviewState = "COMPLETED"

\* C6: once COMPLETED, no event changes the phase or the history of the
\* session.
C6_CompletedIsTerminal ==
    [][(mounted /\ interviewState = "COMPLETED" /\ mounted') =>
          (interviewState' = "COMPLETED" /\ interviewHistory' = interviewHistory)]_vars

\* C7: at most one feedback or summary call is in flight in a session.
C7_OneCallInFlight ==
    mounted => Len(feedbackCalls) + Len(summaryCalls) <= 1

C9_BlankTranscriptIgnored ==
    [][(\E transcript \in Transcripts :
            /\ \A i \in 1..Len(transcript) : IsSpace(transcript[i])
            /\ onresult(transcript)) =>
          /\ interviewHistory' = interviewHistory
          /\ feedbackCalls' = feedbackCalls
          /\ issued' = issued
          /\ mounted => interviewState' = "AWAITING_ANSWER"]_vars

\* C9's case: a blank transcript was captured while LISTENING.
C9_Witness ==
    /\ mounted
    /\ recResulted
    /\ userTranscript = <<" ">>
    /\ interviewState = "AWAITING_ANSWER"
    /\ issued = 0

\* C10: in every non-terminal phase, with a turn completed, the user's request
\* to end the interview leads to PROCESSING_SUMMARY with a summary call
\* issued.  The request is "End Interview" on the feedback card and, in the
\* phases that render no such button, the header's back button.
C10_EndFromAnyPhase ==
    [][(/\ interviewState \in NonTerminalStates
        /\ Len(interviewHistory) >= 1
        /\ IF interviewState = "DISPLAYING_FEEDBACK" THEN onEndInterviewClick
                                                     ELSE onBack) =>
          /\ interviewState' = "PROCESSING_SUMMARY"
          /\ Len(summaryCalls') = Len(summaryCalls) + 1]_vars

\* C11: handleEndInterview called with an empty history and isNaturalEnd =
\* false leaves the session: the screen is unmounted, no summary call is made
\* and the phase never becomes PROCESSING_SUMMARY.
C11_EmptyHistoryEndExits ==
    [][(mounted /\ Len(interviewHistory) = 0 /\ handleEndInterview(FALSE)) =>
          /\ ~mounted'
          /\ summaryCalls' = summaryCalls
          /\ interviewState' # "PROCESSING_SUMMARY"]_vars

\* C11's case: the session was left by handleEndInterview (the one way out
\* under EndSpec) before any turn was completed, with no summary call made.
C11_Witness ==
    /\ ~mounted
    /\ started
    /\ openingCall = "done"
    /\ issued = 0
    /\ summaryCalls = <<>>

\* C12: "Next Question" with no staged question makes one summary call, with
\* the history as it stands, and enters PROCESSING_SUMMARY; when a summary
\* call resolves the phase is COMPLETED.
C12_NaturalEndSummarizes ==
    /\ [][(/\ mounted /\ interviewState = "DISPLAYING_FEEDBACK"
           /\ ~Truthy(stagedNextQuestion)
           /\ handleNextQuestion) =>
             /\ summaryCalls' = Append(summaryCalls, interviewHistory)
             /\ Len(interviewHistory) >= 1
             /\ interviewHistory' = interviewHistory
             /\ interviewState' = "PROCESSING_SUMMARY"]_vars
    /\ [][(mounted /\ interviewState = "PROCESSING_SUMMARY"
              /\ Len(summaryCalls') < Len(summaryCalls)) =>
             (interviewState' = "COMPLETED" /\ summary' # <<>>)]_vars

\* C12's case: both turns answered, the last feedback came without a next
\* question, the summary of the two turns has arrived.
C12_Witness ==
    /\ mounted
    /\ interviewState = "COMPLETED"
    /\ stagedNextQuestion = Null
    /\ Len(interviewHistory) = 2
    /\ summaryCalls = <<>>
    /\ summary = <<"s">>

\* what C13 says is left alone
C13_Frame ==
    /\ interviewHistory' = interviewHistory
    /\ currentQuestion' = currentQuestion
    /\ stagedNextQuestion' = stagedNextQuestion

\* C13: a tap in AWAITING_ANSWER starts a capture (LISTENING), a second tap
\* makes the capture session end, its end event returns the phase to
\* AWAITING_ANSWER; none of the three touches the history, currentQuestion or
\* stagedNextQuestion, and while LISTENING the end event is still to come.
C13_ToggleTwiceReturns ==
    /\ [][(/\ mounted /\ hasSpeechRecognition /\ interviewState = "AWAITING_ANSWER"
           /\ handleToggleListening) =>
             (interviewState' = "LISTENING" /\ recognition' # "inactive" /\ C13_Frame)]_vars
    /\ [][(mounted /\ interviewState = "LISTENING" /\ handleToggleListening) =>
             /\ interviewState' = "LISTENING"
             /\ recognition' \in {"stopping", "errored"}
             /\ C13_Frame]_vars
    /\ [][(mounted /\ interviewState = "LISTENING" /\ onend) =>
             (interviewState' = "AWAITING_ANSWER" /\ C13_Frame)]_vars
    /\ []((mounted /\ interviewState = "LISTENING") => recognition # "inactive")

\* C13's case: two taps and no result: LISTENING with the capture stopping.
C13_Witness ==
    /\ mounted
    /\ interviewState = "LISTENING"
    /\ recognition = "stopping"
    /\ ~recResulted

\* C14: a response that arrives when the screen is unmounted changes no
\* state of the session, speaks nothing and makes no collaborator call.
C14_LateResponseIgnored ==
    [][(/\ ~mounted
        /\ \/ openingCall' # openingCall
           \/ Len(feedbackCalls') < Len(feedbackCalls)
           \/ Len(summaryCalls') < Len(summaryCalls)) =>
          /\ UNCHANGED <<interviewState, currentQuestion, stagedNextQuestion,
                         userTranscript, feedback, interviewHistory, summary>>
          /\ utterances' = utterances
          /\ issued' = issued
          /\ Len(feedbackCalls') <= Len(feedbackCalls)
          /\ Len(summaryCalls') <= Len(summaryCalls)
          /\ openingCall' # "pending"]_vars

\* C14's case: responses have arrived after teardown, none is left in flight.
C14_Witness ==
    /\ ~mounted
    /\ lateResponse
    /\ openingCall = "done"
    /\ issued >= 1
    /\ feedbackCalls = <<>>
    /\ summaryCalls = <<>>

\* C15: translateText is called at most once for a text (in the one language
\* that is not the base language).
C15_TranslatedAtMostOnce ==
    \A text \in UiTexts : translateIssued[text] <= 1

\* C16: translate in English resolves with its argument, calls translateText
\* not at all and leaves the cache as it is.
C16_BaseLanguageUntranslated ==
    [][\A text \in UiTexts :
          (language = "English" /\ translate(text)) =>
              /\ translateResult' = [text |-> text, value |-> text]
              /\ translateCalls' = translateCalls
              /\ translateIssued' = translateIssued
              /\ translationCache' = translationCache]_vars

\* C16's case: translate has returned its argument in English, and
\* translateText was never called.
C16_Witness ==
    /\ language = "English"
    /\ translateResult = [text |-> <<"h">>, value |-> <<"h">>]
    /\ \A text \in UiTexts : translateIssued[text] = 0
    /\ translationCache = NoTranslations

\* C17: once the user has picked a voice, a refresh of the voice list leaves
\* selectedVoiceURI as it is.
C17_UserSelectionKept ==
    [][(userSelected /\ \E platformVoices \in PlatformVoiceLists :
                            loadVoices(platformVoices)) =>
          selectedVoiceURI' = selectedVoiceURI]_vars

\* C18: speechSynthesis never holds more than one utterance; speakText with a
\* text leaves exactly the utterance of that text in the queue, and speakText
\* with the empty text leaves the queue as it is.
C18_OneUtteranceInFlight ==
    /\ [](Len(utterances) <= 1)
    /\ [][\A text \in SpokenTexts :
             speakTextCall(text) =>
                 IF text = <<>>
                 THEN utterances' = utterances
                 ELSE Len(utterances') = 1 /\ utterances'[1].text = text]_vars

\* C18's case: the session's question was being spoken again (after a voice
\* refresh) and another consumer's text has replaced it.
C18_Witness ==
    /\ mounted
    /\ spoken = "repeatedly"
    /\ Len(utterances) = 1
    /\ utterances[1].text = <<"m">>
    /\ utterances[1].voice = "en2"

\* the phase changes of the specified machine
C19_PhaseChanges ==
    { <<"STARTING", "AWAITING_ANSWER">>,
      <<"AWAITING_ANSWER", "LISTENING">>,
      <<"LISTENING", "AWAITING_ANSWER">>,
      <<"LISTENING", "PROCESSING">>,
      <<"PROCESSING", "DISPLAYING_FEEDBACK">>,
      <<"DISPLAYING_FEEDBACK", "AWAITING_ANSWER">>,
      <<"DISPLAYING_FEEDBACK", "PROCESSING_SUMMARY">>,
      <<"PROCESSING_SUMMARY", "COMPLETED">> }

\* C19: while the session lives, every change of interviewState is one of the
\* phase changes of the specified machine.
C19_PhaseMachine ==
    [][(mounted /\ mounted' /\ interviewState' # interviewState) =>
          <<interviewState, interviewState'>> \in C19_PhaseChanges]_vars

\* the text holds no asterisk
NoAsterisk(text) == \A k \in 1..Len(text) : text[k] # "*"

\* C20: currentQuestion, stagedNextQuestion, the feedback of every turn and
\* summary hold no asterisk.
C20_NoAsterisks ==
    /\ NoAsterisk(currentQuestion)
    /\ NoAsterisk(stagedNextQuestion)
    /\ \A k \in 1..Len(interviewHistory) : NoAsterisk(interviewHistory[k].feedback)
    /\ NoAsterisk(summary)

\* C20's case: every collaborator has returned text with asterisks, and the
\* session shows it without them.
C20_Witness ==
    /\ mounted
    /\ interviewState = "COMPLETED"
    /\ currentQuestion = <<"a">>
    /\ stagedNextQuestion = <<>>
    /\ Len(interviewHistory) = 1
    /\ interviewHistory[1].feedback = <<"f">>
    /\ summary = <<"s">>

\* C21: while the screen is mounted the history only grows at its end: a step
\* that completes a feedback call appends one turn, made of that call's
\* question and answer, after the turns already there, and every other step
\* leaves the history as it is.  So every earlier value is a prefix of the
\* current one and the turns stand in the order the responses completed.
C21_HistoryAppendOnly ==
    [][(mounted /\ mounted') =>
          IF Len(feedbackCalls') < Len(feedbackCalls)
          THEN \E i \in 1..Len(feedbackCalls) :
                  /\ feedbackCalls' = RemoveAt(feedbackCalls, i)
                  /\ Len(interviewHistory') = Len(interviewHistory) + 1
                  /\ SubSeq(interviewHistory', 1, Len(interviewHistory)) =
                         interviewHistory
                  /\ interviewHistory'[Len(interviewHistory')].question =
                         feedbackCalls[i].question
                  /\ interviewHistory'[Len(interviewHistory')].answer =
                         feedbackCalls[i].transcript
          ELSE interviewHistory' = interviewHistory]_vars

\* C21's case: two turns recorded, the second call having completed first.
C21_Witness ==
    /\ mounted
    /\ Len(interviewHistory) = 2
    /\ ~turnsInOrder
    /\ feedbackCalls = <<>>

\* C22: the end of a capture session sets the phase to AWAITING_ANSWER when
\* the phase is LISTENING and changes nothing else of the session; in any
\* other phase it changes nothing of the session at all, and in neither case
\* a collaborator is called.
C22_EndOnlyFromListening ==
    [][onend =>
          /\ IF mounted /\ interviewState = "LISTENING"
             THEN interviewState' = "AWAITING_ANSWER"
             ELSE interviewState' = interviewState
          /\ UNCHANGED <<mounted, started, currentQuestion, stagedNextQuestion,
                         userTranscript, feedback, interviewHistory, summary,
                         recognitionRef, onresultQuestion>>
          /\ UNCHANGED <<openingCall, feedbackCalls, summaryCalls, issued>>]_vars

\* C22's case: a capture session has ended after its result was delivered,
\* with the answer's feedback call still in flight and the phase PROCESSING.
C22_Witness ==
    /\ mounted
    /\ interviewState = "PROCESSING"
    /\ recognition = "inactive"
    /\ recResulted
    /\ Len(feedbackCalls) = 1

C24_FeedbackImpliesHistory ==
    /\ []((mounted /\ interviewState = "DISPLAYING_FEEDBACK") =>
              interviewHistory # <<>>)
    /\ [](\A k \in 1..Len(summaryCalls) : summaryCalls[k] # <<>>)
    /\ [][onEndInterviewClick =>
             /\ mounted'
             /\ interviewState' = "PROCESSING_SUMMARY"
             /\ summaryCalls' = Append(summaryCalls, interviewHistory)]_vars

\* C24's case: "End Interview" pressed on the first feedback card, the
\* summarizer called with the one turn recorded.
C24_Witness ==
    /\ mounted
    /\ interviewState = "PROCESSING_SUMMARY"
    /\ Len(summaryCalls) = 1
    /\ Len(summaryCalls[1]) = 1
    /\ summaryCalls[1] = interviewHistory

\* C25: in T, the response of a translateText call whose text or language is
\* no longer the one on screen, or that arrives when T is unmounted, or whose
\* effect has been cleaned up, leaves the displayed text as it is; only the
\* call of the effect that ran last can still write, and it is a call for the
\* children and the language of the moment; and while the language is English
\* the displayed text is the source text.
C25_StaleTranslationIgnored ==
    /\ [][\A i \in 1..Len(translateCalls) :
            (/\ translateCalls' = RemoveAt(translateCalls, i)
             /\ tThens' = RemoveAt(tThens, i)
             /\ \/ ~tMounted
                \/ ~tThens[i]
                \/ translateCalls[i].text # children
                \/ translateCalls[i].language # language) =>
                translatedText' = translatedText]_vars
    /\ [](\A i \in 1..Len(tThens) :
            tThens[i] => /\ tMounted
                         /\ i = Len(tThens)
                         /\ translateCalls[i].text = children
                         /\ translateCalls[i].language = language)
    /\ []((tMounted /\ language = "English") => translatedText = children)

\* C25's case: the language is English again, the translation asked for
\* before the switch has arrived since and was left aside: the source text is
\* displayed.
C25_Witness ==
    /\ tMounted
    /\ tLate
    /\ language = "English"
    /\ children \in UiTexts
    /\ translateCalls = <<>>
    /\ translationCache[children]["Tamil"] = <<"t">>
    /\ translatedText = children

=============================================================================
